---- MODULE Spec2Model ----
(***************************************************************************)
(* Model of numpython/base.py: the Pymatrix class.                         *)
(*                                                                         *)
(* Python lists are mutable objects that are passed and stored by          *)
(* reference, so the model keeps an explicit heap: rowHeap holds the inner *)
(* lists (list[float]) and outHeap the outer lists (list[list[float]]),    *)
(* both indexed by address.  A Pymatrix object is a record holding the     *)
(* address of its data list and its rows / cols attributes.  Floats are    *)
(* immutable and are modelled by small integers (0 stands for 0.0).        *)
(* Python indices are 0-based; sequences of the model are 1-based, and     *)
(* PyIndex / SliceSeq do the conversion the interpreter does.              *)
(***************************************************************************)
EXTENDS Integers, Sequences, FiniteSets, TLC

VARIABLES rowHeap,     \* address -> contents of an inner list (a row)
          outHeap,     \* address -> an outer list: a sequence of row addresses
          mats,        \* the Pymatrix objects constructed so far
          callerOuts,  \* addresses of outer lists the caller passed to Pymatrix(...)
          copies,      \* history: <<M, C>> for every C = M.copy()
          last         \* the last call: operation, arguments, exception, result

vars == <<rowHeap, outHeap, mats, callerOuts, copies, last>>
heap == <<rowHeap, outHeap, mats>>

\* Bounds of the model.
MaxMats == 2        \* Pymatrix objects alive at once
MaxDim == 2         \* largest row / column count of a caller-supplied literal
MaxRowObjs == 3     \* inner lists allocated at most

Min(a, b) == IF a < b THEN a ELSE b
Max(a, b) == IF a > b THEN a ELSE b

NoArg == "-"
Call(op, m, a1, a2, exc, ret) ==
    [op |-> op, m |-> m, a1 |-> a1, a2 |-> a2, exc |-> exc, ret |-> ret]
NoCall == Call("none", NoArg, NoArg, NoArg, "none", NoArg)

\* Calls are synchronous: a call starts only when the previous one has
\* returned and the caller has taken its result.
Idle == last = NoCall

----------------------------------------------------------------------------
\* Views of the heap.

\* The nested list behind outer-list address o, by value.
DataVal(o) == [i \in 1 .. Len(outHeap[o]) |-> rowHeap[outHeap[o][i]]]
\* self.data of matrix m, by value.
MatVal(m) == DataVal(mats[m].data)
\* The addresses of the rows of matrix m.
RowAddrs(m) == {outHeap[mats[m].data][i] : i \in 1 .. Len(outHeap[mats[m].data])}

----------------------------------------------------------------------------
\* Python's built-in list semantics used by the class.

\* Mutant of PyIndex: an index past either end is clamped to the nearest
\* element, as slice bounds are, instead of raising IndexError.
PyIndex_Clamped(n, i) ==
    IF n = 0 THEN 0
    ELSE IF i >= n THEN n
    ELSE IF i < -n THEN 1
    ELSE IF i >= 0 THEN i + 1
    ELSE i + n + 1

\* list[i] with an int i: the 1-based position read, or 0 for IndexError.
PyIndex(n, i) ==
    IF i >= 0 /\ i < n THEN i + 1
    ELSE IF i < 0 /\ i >= -n THEN i + n + 1
    ELSE 0

\* slice(a, b).indices(n): a bound is shifted by n when negative, then clamped.
SliceBound(n, a) == IF a < 0 THEN Max(a + n, 0) ELSE Min(a, n)

\* list[a:b]: a new list; out-of-range bounds never raise.
SliceSeq(s, a, b) ==
    LET lo == SliceBound(Len(s), a)
        hi == SliceBound(Len(s), b)
    IN  IF hi <= lo THEN << >> ELSE SubSeq(s, lo + 1, hi)

\* list(zip(*data)) followed by list(row) for each tuple: zip stops at the
\* shortest argument.
RECURSIVE MinLen(_)
MinLen(d) ==
    IF Len(d) = 0 THEN 0
    ELSE IF Len(d) = 1 THEN Len(d[1])
    ELSE Min(Len(d[1]), MinLen(Tail(d)))

ZipRows(d) == [j \in 1 .. MinLen(d) |-> [i \in 1 .. Len(d) |-> d[i][j]]]

\* Mutant of ListEq: only the lengths are compared.
ListEq_ShapeOnly(a, b) ==
    /\ Len(a) = Len(b)
    /\ \A i \in 1 .. Len(a) : Len(a[i]) = Len(b[i])

\* a == b on two nested lists.
ListEq(a, b) ==
    /\ Len(a) = Len(b)
    /\ \A i \in 1 .. Len(a) :
          /\ Len(a[i]) = Len(b[i])
          /\ \A j \in 1 .. Len(a[i]) : a[i][j] = b[i][j]

----------------------------------------------------------------------------
\* Pymatrix.__init__

\* The check of __init__ on its argument.  kind is "nested" for a list of
\* lists and "flat" for a list of floats, on which len(row) raises TypeError.
InitExc(kind, d) ==
    IF Len(d) = 0 THEN "ValueError"
    ELSE IF kind = "flat" THEN "TypeError"
    ELSE IF \E i \in 1 .. Len(d) : Len(d[i]) # Len(d[1]) THEN "ValueError"
    ELSE "none"

\* A list of lists just built (a literal, a comprehension), given by value d,
\* is placed on the heap and __init__ stores it as it is.
StoreNew(d) ==
    /\ rowHeap' = rowHeap \o d
    /\ outHeap' = Append(outHeap, [i \in 1 .. Len(d) |-> Len(rowHeap) + i])
    /\ mats' = Append(mats, [data |-> Len(outHeap) + 1,
                             rows |-> Len(d),
                             cols |-> Len(d[1])])

CanAlloc(d) == Len(mats) < MaxMats /\ Len(rowHeap) + Len(d) <= MaxRowObjs

\* cls(d) on a freshly built value d of the given kind: op, receiver and
\* arguments are recorded in last.
Construct(op, m, a1, a2, kind, d) ==
    LET exc == InitExc(kind, d) IN
    IF exc = "none"
    THEN /\ CanAlloc(d)
         /\ StoreNew(d)
         /\ last' = Call(op, m, a1, a2, "none", Len(mats) + 1)
    ELSE /\ UNCHANGED heap
         /\ last' = Call(op, m, a1, a2, exc, NoArg)

\* The caller's literals: row i has lens[i] elements, all elements distinct.
Fill(lens) == [i \in 1 .. Len(lens) |-> [j \in 1 .. lens[i] |-> (i - 1) * MaxDim + j]]
LenSeqs == UNION {[1 .. n -> 0 .. MaxDim] : n \in 0 .. MaxDim}

\* Pymatrix(data) on a list the caller has just built and keeps.
FromRows(lens) ==
    /\ Idle
    /\ Construct("init", NoArg, lens, NoArg, "nested", Fill(lens))
    /\ callerOuts' = IF InitExc("nested", Fill(lens)) = "none"
                     THEN callerOuts \cup {Len(outHeap) + 1}
                     ELSE callerOuts
    /\ UNCHANGED copies

\* Pymatrix(data) on a list the caller has passed to Pymatrix before.
FromShared(o) ==
    /\ Idle
    /\ o \in callerOuts
    /\ LET exc == InitExc("nested", DataVal(o)) IN
       IF exc = "none"
       THEN /\ Len(mats) < MaxMats
            /\ mats' = Append(mats, [data |-> o,
                                     rows |-> Len(outHeap[o]),
                                     cols |-> Len(rowHeap[outHeap[o][1]])])
            /\ last' = Call("init", NoArg, o, "shared", "none", Len(mats) + 1)
       ELSE /\ mats' = mats
            /\ last' = Call("init", NoArg, o, "shared", exc, NoArg)
    /\ UNCHANGED <<rowHeap, outHeap, callerOuts, copies>>

\* Pymatrix.zeros(rows, cols): [[0.0] * cols for _ in range(rows)].
ZerosData(r, c) == [i \in 1 .. Max(r, 0) |-> [j \in 1 .. Max(c, 0) |-> 0]]

Zeros(r, c) ==
    /\ Idle
    /\ Construct("zeros", NoArg, r, c, "nested", ZerosData(r, c))
    /\ UNCHANGED <<callerOuts, copies>>

----------------------------------------------------------------------------
\* Pymatrix.__getitem__

\* An index is <<"S", i>> (an int) or <<"R", a, b>> (slice(a, b)).
IsScalar(sel) == sel[1] = "S"

\* self.data[idx] for an int idx: the row object itself is returned.
GetRow(m, i) ==
    /\ Idle
    /\ m \in 1 .. Len(mats)
    /\ LET pos == PyIndex(Len(outHeap[mats[m].data]), i) IN
       last' = IF pos = 0
               THEN Call("getrow", m, i, NoArg, "IndexError", NoArg)
               ELSE Call("getrow", m, i, NoArg, "none", outHeap[mats[m].data][pos])
    /\ UNCHANGED <<heap, callerOuts, copies>>

\* self.data[row_idx][col_idx], both ints.
Element(d, i, j) ==
    LET ri == PyIndex(Len(d), i) IN
    IF ri = 0 THEN [exc |-> "IndexError"]
    ELSE LET ci == PyIndex(Len(d[ri]), j) IN
         IF ci = 0 THEN [exc |-> "IndexError"]
         ELSE [exc |-> "none", val |-> d[ri][ci]]

\* [row[col_idx] for row in rows] on a list of lists.
SliceColumns(rows, cs) ==
    IF IsScalar(cs)
    THEN IF \E k \in 1 .. Len(rows) : PyIndex(Len(rows[k]), cs[2]) = 0
         THEN [exc |-> "IndexError"]
         ELSE [exc |-> "none", kind |-> "flat",
               val |-> [k \in 1 .. Len(rows) |-> rows[k][PyIndex(Len(rows[k]), cs[2])]]]
    ELSE [exc |-> "none", kind |-> "nested",
          val |-> [k \in 1 .. Len(rows) |-> SliceSeq(rows[k], cs[2], cs[3])]]

\* The value `sliced` handed to Pymatrix(...) when an index of the pair is a
\* slice, or the exception raised before that.  rows[0] raises IndexError on
\* an empty list; isinstance(rows[0], list) holds exactly when row_idx was a
\* slice, since an int row_idx yields a row, whose elements are floats.
Sliced(d, rs, cs) ==
    IF IsScalar(rs)
    THEN LET ri == PyIndex(Len(d), rs[2]) IN
         IF ri = 0 THEN [exc |-> "IndexError"]
         ELSE IF Len(d[ri]) = 0 THEN [exc |-> "IndexError"]
         ELSE [exc |-> "none", kind |-> "flat", val |-> SliceSeq(d[ri], cs[2], cs[3])]
    ELSE LET rows == SliceSeq(d, rs[2], rs[3]) IN
         IF Len(rows) = 0 THEN [exc |-> "IndexError"]
         ELSE SliceColumns(rows, cs)

\* self[row_idx, col_idx]
GetPair(m, rs, cs) ==
    /\ Idle
    /\ m \in 1 .. Len(mats)
    /\ IF IsScalar(rs) /\ IsScalar(cs)
       THEN LET e == Element(MatVal(m), rs[2], cs[2]) IN
            /\ last' = IF e.exc = "none"
                       THEN Call("getpair", m, rs, cs, "none", e.val)
                       ELSE Call("getpair", m, rs, cs, e.exc, NoArg)
            /\ UNCHANGED heap
       ELSE LET s == Sliced(MatVal(m), rs, cs) IN
            IF s.exc = "none"
            THEN Construct("getpair", m, rs, cs, s.kind, s.val)
            ELSE /\ last' = Call("getpair", m, rs, cs, s.exc, NoArg)
                 /\ UNCHANGED heap
    /\ UNCHANGED <<callerOuts, copies>>

----------------------------------------------------------------------------
\* Pymatrix.__setitem__

\* Mutant of InvalidRowSize: the length of the new row is not checked.
InvalidRowSize_Never(vlen, cols) == FALSE

\* The guard of __setitem__: true when ValueError("Invalid row size") is raised.
InvalidRowSize(vlen, cols) == vlen # cols

\* A row the caller builds for the call: distinct from every Fill row.
FreshRow(n) == [j \in 1 .. n |-> MaxDim * MaxDim + 1 - j]

\* The value argument is <<"new", n>>, a list built for the call, or
\* <<"ref", a>>, a list the caller already holds (a row some matrix returned).
ValueLen(v) == IF v[1] = "new" THEN v[2] ELSE Len(rowHeap[v[2]])
ValueVal(v) == IF v[1] = "new" THEN FreshRow(v[2]) ELSE rowHeap[v[2]]

\* self.data[idx] = value: the slot written, or 0 for IndexError.
SetSlot(n, i) == PyIndex(n, i)

SetRow(m, i, v) ==
    /\ Idle
    /\ m \in 1 .. Len(mats)
    /\ v[1] = "ref" => v[2] \in 1 .. Len(rowHeap)
    /\ LET o == mats[m].data
           pos == SetSlot(Len(outHeap[o]), i)
       IN
       IF InvalidRowSize(ValueLen(v), mats[m].cols)
       THEN /\ last' = Call("setitem", m, i, v, "ValueError", NoArg)
            /\ UNCHANGED <<rowHeap, outHeap>>
       ELSE IF pos = 0
       THEN /\ last' = Call("setitem", m, i, v, "IndexError", NoArg)
            /\ UNCHANGED <<rowHeap, outHeap>>
       ELSE IF v[1] = "new"
       THEN /\ Len(rowHeap) < MaxRowObjs
            /\ rowHeap' = Append(rowHeap, FreshRow(v[2]))
            /\ outHeap' = [outHeap EXCEPT ![o][pos] = Len(rowHeap) + 1]
            /\ last' = Call("setitem", m, i, v, "none", NoArg)
       ELSE /\ rowHeap' = rowHeap
            /\ outHeap' = [outHeap EXCEPT ![o][pos] = v[2]]
            /\ last' = Call("setitem", m, i, v, "none", NoArg)
    /\ UNCHANGED <<mats, callerOuts, copies>>

\* m[i][j] = x: __getitem__ returns the row object and the list store
\* writes into it.
ElementWrite(m, i, j, x) ==
    /\ Idle
    /\ m \in 1 .. Len(mats)
    /\ LET o == mats[m].data
           ri == PyIndex(Len(outHeap[o]), i)
           ci == IF ri = 0 THEN 0 ELSE PyIndex(Len(rowHeap[outHeap[o][ri]]), j)
       IN
       IF ri = 0 \/ ci = 0
       THEN /\ last' = Call("setelem", m, i, j, "IndexError", NoArg)
            /\ rowHeap' = rowHeap
       ELSE /\ last' = Call("setelem", m, i, j, "none", NoArg)
            /\ rowHeap' = [rowHeap EXCEPT ![outHeap[o][ri]][ci] = x]
    /\ UNCHANGED <<outHeap, mats, callerOuts, copies>>

\* data[i][j] = x by the caller, on the list it passed to Pymatrix(data).
CallerWrite(o, i, j, x) ==
    /\ Idle
    /\ o \in callerOuts
    /\ i \in 1 .. Len(outHeap[o])
    /\ j \in 1 .. Len(rowHeap[outHeap[o][i]])
    /\ rowHeap' = [rowHeap EXCEPT ![outHeap[o][i]][j] = x]
    /\ last' = Call("callerwrite", NoArg, o, <<i, j>>, "none", NoArg)
    /\ UNCHANGED <<outHeap, mats, callerOuts, copies>>

----------------------------------------------------------------------------
\* Pymatrix.transpose, Pymatrix.copy, Pymatrix.__eq__

\* Mutant of TransposeData: the rows are copied without being zipped.
TransposeData_Same(d) == [i \in 1 .. Len(d) |-> d[i]]

\* [list(row) for row in list(zip(*self.data))]
TransposeData(d) == ZipRows(d)

Transpose(m) ==
    /\ Idle
    /\ m \in 1 .. Len(mats)
    /\ Construct("transpose", m, NoArg, NoArg, "nested", TransposeData(MatVal(m)))
    /\ UNCHANGED <<callerOuts, copies>>

\* [row[:] for row in self.data]
CopyData(d) == [i \in 1 .. Len(d) |-> SubSeq(d[i], 1, Len(d[i]))]

Copy(m) ==
    /\ Idle
    /\ m \in 1 .. Len(mats)
    /\ Construct("copy", m, NoArg, NoArg, "nested", CopyData(MatVal(m)))
    /\ copies' = IF InitExc("nested", CopyData(MatVal(m))) = "none"
                 THEN copies \cup {<<m, Len(mats) + 1>>}
                 ELSE copies
    /\ UNCHANGED callerOuts

\* The operand of == is a matrix (its index) or NotAMatrix, any other object.
NotAMatrix == 0

\* isinstance(other, Pymatrix) and self.data == other.data
EqResult(m, other) ==
    IF other = NotAMatrix THEN FALSE
    ELSE ListEq(MatVal(m), MatVal(other))

Eq(m, other) ==
    /\ Idle
    /\ m \in 1 .. Len(mats)
    /\ other \in {NotAMatrix} \cup (1 .. Len(mats))
    /\ last' = Call("eq", m, other, NoArg, "none", EqResult(m, other))
    /\ UNCHANGED <<heap, callerOuts, copies>>

----------------------------------------------------------------------------
\* The arguments the caller draws.
Indices == {-(MaxDim + 1), -1, 0, 1, MaxDim}
Scalars == {<<"S", i>> : i \in Indices}
Ranges == {<<"R", 0, 1>>, <<"R", 1, MaxDim>>, <<"R", 1, 1>>,
           <<"R", 0, MaxDim + 1>>, <<"R", -1, MaxDim + 1>>}
Sels == Scalars \cup Ranges
NewRows == {<<"new", n>> : n \in 0 .. MaxDim}
RowValues == NewRows \cup {<<"ref", a>> : a \in 1 .. MaxRowObjs}
WriteVals == {0}
WriteCols == {0, MaxDim}

Init ==
    /\ rowHeap = << >>
    /\ outHeap = << >>
    /\ mats = << >>
    /\ callerOuts = {}
    /\ copies = {}
    /\ last = NoCall

\* The caller takes the result of the last call and goes on.
Discard ==
    /\ ~Idle
    /\ last' = NoCall
    /\ UNCHANGED <<heap, callerOuts, copies>>

Next ==
    \/ \E lens \in LenSeqs : FromRows(lens)
    \/ \E o \in callerOuts : FromShared(o)
    \/ \E r, c \in -1 .. MaxDim : Zeros(r, c)
    \/ \E m \in 1 .. MaxMats, i \in Indices : GetRow(m, i)
    \/ \E m \in 1 .. MaxMats, rs, cs \in Sels : GetPair(m, rs, cs)
    \/ \E m \in 1 .. MaxMats, i \in Indices, v \in RowValues : SetRow(m, i, v)
    \/ \E m \in 1 .. MaxMats, i \in Indices, j \in WriteCols, x \in WriteVals :
          ElementWrite(m, i, j, x)
    \/ \E o \in callerOuts, i, j \in 1 .. MaxDim, x \in WriteVals : CallerWrite(o, i, j, x)
    \/ \E m \in 1 .. MaxMats : Transpose(m)
    \/ \E m \in 1 .. MaxMats : Copy(m)
    \/ \E m \in 1 .. MaxMats, other \in 0 .. MaxMats : Eq(m, other)
    \/ Discard

Spec == Init /\ [][Next]_vars

\* Construction and the calls that take an index, each row argument a list
\* built for the call.
NextIndex ==
    \/ \E lens \in LenSeqs : FromRows(lens)
    \/ \E m \in 1 .. MaxMats, i \in Indices : GetRow(m, i)
    \/ \E m \in 1 .. MaxMats, rs, cs \in Sels : GetPair(m, rs, cs)
    \/ \E m \in 1 .. MaxMats, i \in Indices, v \in NewRows : SetRow(m, i, v)
    \/ Discard

SpecIndex == Init /\ [][NextIndex]_vars

\* Construction, row access and row replacement, the row argument built for
\* the call or a row some matrix holds.
NextSetRow ==
    \/ \E lens \in LenSeqs : FromRows(lens)
    \/ \E m \in 1 .. MaxMats, i \in Indices : GetRow(m, i)
    \/ \E m \in 1 .. MaxMats, i \in Indices, v \in RowValues : SetRow(m, i, v)
    \/ Discard

SpecSetRow == Init /\ [][NextSetRow]_vars

\* Construction and the operations that build or compare whole matrices.
NextWhole ==
    \/ \E lens \in LenSeqs : FromRows(lens)
    \/ \E r, c \in -1 .. MaxDim : Zeros(r, c)
    \/ \E m \in 1 .. MaxMats : Transpose(m)
    \/ \E m \in 1 .. MaxMats : Copy(m)
    \/ \E m \in 1 .. MaxMats, other \in 0 .. MaxMats : Eq(m, other)
    \/ Discard

SpecWhole == Init /\ [][NextWhole]_vars

----------------------------------------------------------------------------
\* Properties.

Mats == 1 .. Len(mats)

\* Matrix m is well formed: the invariant of section 3 of the specification.
ShapeOK(m) ==
    /\ mats[m].rows >= 1
    /\ mats[m].cols >= 1
    /\ mats[m].rows = Len(MatVal(m))
    /\ mats[m].cols = Len(MatVal(m)[1])
    /\ \A i \in 1 .. Len(MatVal(m)) : Len(MatVal(m)[i]) = mats[m].cols

\* C1: in every reachable state every matrix has rows >= 1, cols >= 1,
\* rows = len(data), cols = len(data[0]) and every row has cols elements.
ShapeInvariant == \A m \in Mats : ShapeOK(m)

\* C2: __setitem__ with a row of the wrong length raises ValueError and
\* leaves data, rows and cols as they were; with a row of the right length
\* and a valid index i it makes row i equal to the new row and leaves every
\* other row, rows and cols as they were.
SetRowContract ==
    [][\A m \in Mats :
         (last'.op = "setitem" /\ last'.m = m) =>
            LET i == last'.a1
                newRow == ValueVal(last'.a2)
            IN
            /\ Len(newRow) # mats[m].cols =>
                  /\ last'.exc = "ValueError"
                  /\ MatVal(m)' = MatVal(m)
                  /\ mats' = mats
            /\ (Len(newRow) = mats[m].cols /\ i >= 0 /\ i < mats[m].rows) =>
                  /\ last'.exc = "none"
                  /\ Len(MatVal(m)') = Len(MatVal(m))
                  /\ \A k \in 1 .. Len(MatVal(m)) :
                        MatVal(m)'[k] = IF k = i + 1 THEN newRow ELSE MatVal(m)[k]
                  /\ mats' = mats
      ]_vars

\* C2 witness: a row of a matrix of two or more rows has been replaced.
SetRowReplaced ==
    /\ last.op = "setitem"
    /\ last.exc = "none"
    /\ mats[last.m].rows >= 2
    /\ MatVal(last.m)[PyIndex(mats[last.m].rows, last.a1)] = ValueVal(last.a2)

\* C3: C = M.copy() equals M and has M's shape, and no later row replacement
\* or element write applied to C changes the contents of M, nor one applied
\* to M the contents of C.
CopyIndependence ==
    [][/\ \A m \in Mats, c \in 1 .. MaxMats :
            (last'.op = "copy" /\ last'.exc = "none" /\ last'.m = m /\ last'.ret = c) =>
               /\ MatVal(c)' = MatVal(m)
               /\ mats'[c].rows = mats[m].rows
               /\ mats'[c].cols = mats[m].cols
       /\ \A p \in copies :
            /\ (last'.op \in {"setitem", "setelem"} /\ last'.m = p[2]) =>
                  MatVal(p[1])' = MatVal(p[1])
            /\ (last'.op \in {"setitem", "setelem"} /\ last'.m = p[1]) =>
                  MatVal(p[2])' = MatVal(p[2])
      ]_vars

\* C4: no two matrices share an outer list or a row, and no matrix holds the
\* list its caller passed to the constructor.
ExclusiveOwnership ==
    /\ \A m1, m2 \in Mats :
          m1 # m2 => /\ mats[m1].data # mats[m2].data
                     /\ RowAddrs(m1) \cap RowAddrs(m2) = {}
    /\ \A m \in Mats : mats[m].data \notin callerOuts

\* An index that selects inside [0, n): an int i with 0 <= i < n, or a slice
\* a:b with 0 <= a < b <= n.
Inside(sel, n) ==
    IF IsScalar(sel) THEN sel[2] >= 0 /\ sel[2] < n
    ELSE sel[2] >= 0 /\ sel[2] < sel[3] /\ sel[3] <= n

\* C5: for a pair of in-range indices the result follows from their kinds:
\* int, int gives the stored float; int, slice a 1 x k matrix of the chosen
\* columns of row i; slice, int a k x 1 matrix of column j of the chosen
\* rows; slice, slice the chosen rows cut to the chosen columns.
IndexResultKinds ==
    (last.op = "getpair" /\ Inside(last.a1, mats[last.m].rows)
                         /\ Inside(last.a2, mats[last.m].cols)) =>
       LET d == MatVal(last.m)
           rs == last.a1
           cs == last.a2
       IN
       /\ last.exc = "none"
       /\ IF IsScalar(rs) /\ IsScalar(cs)
          THEN last.ret = d[rs[2] + 1][cs[2] + 1]
          ELSE /\ last.ret \in Mats
               /\ MatVal(last.ret) =
                    IF IsScalar(rs)
                    THEN << SubSeq(d[rs[2] + 1], cs[2] + 1, cs[3]) >>
                    ELSE IF IsScalar(cs)
                    THEN [k \in 1 .. (rs[3] - rs[2]) |-> << d[rs[2] + k][cs[2] + 1] >>]
                    ELSE [k \in 1 .. (rs[3] - rs[2]) |->
                            SubSeq(d[rs[2] + k], cs[2] + 1, cs[3])]

\* An index that falls outside [0, n): an int below 0 or not below n, or a
\* slice that starts below 0 or ends above n.
Outside0(sel, n) ==
    IF IsScalar(sel) THEN sel[2] < 0 \/ sel[2] >= n
    ELSE sel[2] < 0 \/ sel[3] > n

OutsideInt(sel, n) == IsScalar(sel) /\ (sel[2] < -n \/ sel[2] >= n)

TransposeContract ==
    [][\A m \in Mats, t \in 1 .. MaxMats :
         (last'.op = "transpose" /\ last'.m = m /\ ShapeOK(m)) =>
            /\ last'.exc = "none"
            /\ last'.ret = t =>
                  /\ t \notin Mats
                  /\ mats'[t].rows = mats[m].cols
                  /\ mats'[t].cols = mats[m].rows
                  /\ Len(MatVal(t)') = mats[m].cols
                  /\ \A j \in 1 .. mats[m].cols :
                        /\ Len(MatVal(t)'[j]) = mats[m].rows
                        /\ \A i \in 1 .. mats[m].rows :
                              MatVal(t)'[j][i] = MatVal(m)[i][j]
                  /\ MatVal(m)' = MatVal(m)
                  /\ mats'[m] = mats[m]
      ]_vars

\* C7 witness: a matrix with more columns than rows has been transposed.
TransposedWide ==
    /\ last.op = "transpose"
    /\ last.exc = "none"
    /\ mats[last.m].rows >= 1
    /\ mats[last.m].cols > mats[last.m].rows
    /\ mats[last.ret].rows = mats[last.m].cols

\* C8: every matrix the constructor has accepted can be transposed twice
\* without error, and the result equals it.
TransposeInvolution ==
    \A m \in Mats :
       LET t1 == TransposeData(MatVal(m))
           t2 == TransposeData(t1)
       IN  /\ InitExc("nested", t1) = "none"
           /\ InitExc("nested", t2) = "none"
           /\ ListEq(t2, MatVal(m))

\* C9: zeros(r, c) with r >= 1 and c >= 1 returns an r x c matrix of 0.0
\* whose rows are distinct lists; with r <= 0 or c <= 0 it raises ValueError.
ZerosContract ==
    last.op = "zeros" =>
       LET r == last.a1
           c == last.a2
       IN
       /\ (r >= 1 /\ c >= 1) =>
             /\ last.exc = "none"
             /\ mats[last.ret].rows = r
             /\ mats[last.ret].cols = c
             /\ MatVal(last.ret) = [i \in 1 .. r |-> [j \in 1 .. c |-> 0]]
             /\ Cardinality(RowAddrs(last.ret)) = r
       /\ (r <= 0 \/ c <= 0) => last.exc = "ValueError"

\* C10: __eq__ returns True exactly when the operand is a matrix of the same
\* shape whose elements all equal the receiver's; it returns False for any
\* other object, never raises and changes neither operand.
EqContract ==
    [][\A m \in Mats, o \in 0 .. MaxMats :
         (last'.op = "eq" /\ last'.m = m /\ last'.a1 = o) =>
            /\ last'.exc = "none"
            /\ UNCHANGED heap
            /\ last'.ret \in BOOLEAN
            /\ last'.ret <=>
                  /\ o # NotAMatrix
                  /\ mats[m].rows = mats[o].rows
                  /\ mats[m].cols = mats[o].cols
                  /\ \A i \in 1 .. mats[m].rows, j \in 1 .. mats[m].cols :
                        MatVal(m)[i][j] = MatVal(o)[i][j]
      ]_vars

\* C10 witness: two different matrix objects of two or more elements have
\* compared equal.
EqualDistinctObjects ==
    /\ last.op = "eq"
    /\ last.ret = TRUE
    /\ last.m # last.a1
    /\ mats[last.m].data # mats[last.a1].data
    /\ mats[last.m].rows * mats[last.m].cols >= 2

====
